---------------------------- MODULE Spec2Model ----------------------------
(***************************************************************************)
(* Audio-asset maintenance scripts of the learning platform:               *)
(*   scripts/generate-spanish-audio.py      (asset generation workflow)    *)
(*   scripts/add-audio-to-flashcards.py     (flashcard field updater)      *)
(*   scripts/generation/generate-audio.py   (verb-task field updater)      *)
(*                                                                         *)
(* A text (Python str) is a sequence of characters; a character is a       *)
(* one-element string.  The character U+2026 (horizontal ellipsis) is      *)
(* written "U+2026".                                                       *)
(***************************************************************************)
EXTENDS Integers, Sequences, FiniteSets, TLC

VARIABLES
    \* ---- normalize_filename and text_to_audio_filename on one input -------
    n_text,             \* the input string
    n_slug,             \* the value normalize_filename returned
    n_pc,               \* "in" before that call, "out" after it
    n_audio,            \* the value text_to_audio_filename returned
    n_apc,              \* "in" before that call, "out" after it
    \* ---- generate-spanish-audio.py : main ---------------------------------
    files,              \* LEARNING_PATHS_DIR: file name -> file
    assets,             \* names of the files in AUDIO_OUTPUT_DIR (manifest apart)
    dir_exists,         \* LEARNING_PATHS_DIR.exists()
    manifestFile,       \* content of MANIFEST_FILE, or NoFile
    pc,                 \* position of main
    processed,          \* json_files already handled by the extraction loop
    all_spanish_texts,  \* main's set of candidates
    todo,               \* rest of sorted(all_spanish_texts) still to iterate
    manifest,           \* main's in-memory manifest dict
    success_count,      \* main's counter
    \* history of the current run (not read by the program)
    skipped,            \* candidates whose file was found to exist
    synthCalls,         \* candidates handed to generate_audio_file
    failed,             \* candidates whose synthesis failed
    prevManifest,       \* MANIFEST_FILE as it was when the run started
    incremental,        \* the run directly follows a completed run without
                        \* synthesis failure, inputs and assets untouched
    \* ---- add-audio-to-flashcards.py : main (works on `files`) -------------
    u_pc,               \* position of main
    u_left,             \* rest of sorted(json_files) still to iterate
    total_tasks,        \* main's counters
    total_updated,
    u_snapshot,         \* history: `files` when the run started
    u_settled,          \* history: the run directly follows a completed run
    \* ---- generation/generate-audio.py : the JSON update -------------------
    v_data,             \* content of unregelmaessige-verben.json
    v_pc,               \* how the last script run on the file ended
    v_snapshot,         \* history: v_data when the run started
    v_settled           \* history: the run directly follows a completed run

nvars == <<n_text, n_slug, n_pc, n_audio, n_apc>>
uvars == <<u_pc, u_left, total_tasks, total_updated, u_snapshot, u_settled,
           v_data, v_pc, v_snapshot, v_settled>>
wvars == <<files, dir_exists, assets, manifestFile, pc, processed, all_spanish_texts, todo,
           manifest, success_count, skipped, synthCalls, failed, prevManifest,
           incremental>>
vars == <<nvars, wvars, uvars>>

-----------------------------------------------------------------------------
(* Characters *)

\* Every character the model knows, in code-point order.
CharOrder ==
    << "\t", "\n", " ", "!", "(", ")", ",", "-", ".", "/",
       "0", "1", "2", "3", "4", "5", "6", "7", "8", "9", ":", ";", "?",
       "A", "B", "C", "D", "E", "F", "G", "H", "I", "J", "K", "L", "M",
       "N", "O", "P", "Q", "R", "S", "T", "U", "V", "W", "X", "Y", "Z",
       "[", "]", "_",
       "a", "b", "c", "d", "e", "f", "g", "h", "i", "j", "k", "l", "m",
       "n", "o", "p", "q", "r", "s", "t", "u", "v", "w", "x", "y", "z",
       "{", "}", "¡", "¿",
       "Á", "É", "Í", "Ñ", "Ó", "Ú", "Ü",
       "á", "é", "í", "ñ", "ó", "ú", "ü", "U+2026" >>

\* Position of a character in the code-point order.
Ord(c) == CHOOSE i \in 1..Len(CharOrder) : CharOrder[i] = c

UpperChars ==
    << "A", "B", "C", "D", "E", "F", "G", "H", "I", "J", "K", "L", "M",
       "N", "O", "P", "Q", "R", "S", "T", "U", "V", "W", "X", "Y", "Z",
       "Á", "É", "Í", "Ñ", "Ó", "Ú", "Ü" >>

LowerChars ==
    << "a", "b", "c", "d", "e", "f", "g", "h", "i", "j", "k", "l", "m",
       "n", "o", "p", "q", "r", "s", "t", "u", "v", "w", "x", "y", "z",
       "á", "é", "í", "ñ", "ó", "ú", "ü" >>

Range(seq) == {seq[i] : i \in 1..Len(seq)}

\* str.lower() on one character.
lower_char(c) ==
    IF c \in Range(UpperChars)
    THEN LowerChars[CHOOSE i \in 1..Len(UpperChars) : UpperChars[i] = c]
    ELSE c

\* str.lower()
str_lower(s) == [i \in 1..Len(s) |-> lower_char(s[i])]

\* The characters matched by \s.
Whitespace == {" ", "\t", "\n"}

AsciiLower ==
    { "a", "b", "c", "d", "e", "f", "g", "h", "i", "j", "k", "l", "m",
      "n", "o", "p", "q", "r", "s", "t", "u", "v", "w", "x", "y", "z" }

Digits == {"0", "1", "2", "3", "4", "5", "6", "7", "8", "9"}

-----------------------------------------------------------------------------
(* String helpers (re.sub, str.replace, str.strip, the `in` operator) *)

\* re.sub('[<set>]', '', s): delete every character of the set.
RemoveChars(s, set) ==
    LET keep(c) == c \notin set IN SelectSeq(s, keep)

\* str.replace(old, new) for every pair of a one-character mapping table.
MapChars(s, table) ==
    [i \in 1..Len(s) |-> IF s[i] \in DOMAIN table THEN table[s[i]] ELSE s[i]]

\* re.sub('[<set>]+', r, s): every maximal run of characters of the set
\* becomes the single character r (written where the run ends; "" marks
\* the other characters of a run, which are dropped).
ReplaceRuns(s, set, r) ==
    LET marked == [i \in 1..Len(s) |->
                      IF s[i] \notin set THEN s[i]
                      ELSE IF i < Len(s) /\ s[i + 1] \in set THEN ""
                      ELSE r]
        keep(c) == c # ""
    IN  SelectSeq(marked, keep)

RECURSIVE LStrip(_, _)
LStrip(s, set) ==
    IF s # << >> /\ s[1] \in set THEN LStrip(Tail(s), set) ELSE s

RECURSIVE RStrip(_, _)
RStrip(s, set) ==
    IF s # << >> /\ s[Len(s)] \in set
    THEN RStrip(SubSeq(s, 1, Len(s) - 1), set)
    ELSE s

\* str.strip(chars)
Strip(s, set) == RStrip(LStrip(s, set), set)

\* `sub in s` for strings.
Contains(s, sub) ==
    \E i \in 0..(Len(s) - Len(sub)) : SubSeq(s, i + 1, i + Len(sub)) = sub

-----------------------------------------------------------------------------
(* scripts/generate-spanish-audio.py : normalize_filename *)

\* r'[¿?¡!.,;:()]'
NormPunctuation == {"¿", "?", "¡", "!", ".", ",", ";", ":", "(", ")"}

\* replacements = {'á': 'a', ...}
NormReplacements ==
    [c \in {"á", "é", "í", "ó", "ú", "ü", "ñ"} |->
        CASE c = "á" -> "a" [] c = "é" -> "e" [] c = "í" -> "i"
          [] c = "ó" -> "o" [] c = "ú" -> "u" [] c = "ü" -> "u"
          [] c = "ñ" -> "n"]

\* r'[^a-z0-9-]' keeps exactly these.
SlugChars == AsciiLower \cup Digits \cup {"-"}

\* A plausible slip: the accent table is not applied, so accented letters
\* are dropped by the last filter.
normalize_filename_noaccents(text) ==
    LET t1 == str_lower(text)
        t2 == RemoveChars(t1, NormPunctuation)
        t4 == ReplaceRuns(t2, Whitespace \cup {"/"}, "-")
        t5 == LET keep(c) == c \in SlugChars IN SelectSeq(t4, keep)
        t6 == ReplaceRuns(t5, {"-"}, "-")
    IN  Strip(t6, {"-"})

\* A plausible slip: the hyphen runs left by the last filter are not
\* collapsed.
normalize_filename_nocollapse(text) ==
    LET t1 == str_lower(text)
        t2 == RemoveChars(t1, NormPunctuation)
        t3 == MapChars(t2, NormReplacements)
        t4 == ReplaceRuns(t3, Whitespace \cup {"/"}, "-")
        t5 == LET keep(c) == c \in SlugChars IN SelectSeq(t4, keep)
    IN  Strip(t5, {"-"})

\* A plausible slip: the final strip('-') is forgotten.
normalize_filename_nostrip(text) ==
    LET t1 == str_lower(text)
        t2 == RemoveChars(t1, NormPunctuation)
        t3 == MapChars(t2, NormReplacements)
        t4 == ReplaceRuns(t3, Whitespace \cup {"/"}, "-")
        t5 == LET keep(c) == c \in SlugChars IN SelectSeq(t4, keep)
    IN  ReplaceRuns(t5, {"-"}, "-")

normalize_filename(text) ==
    LET t1 == str_lower(text)
        t2 == RemoveChars(t1, NormPunctuation)
        t3 == MapChars(t2, NormReplacements)
        t4 == ReplaceRuns(t3, Whitespace \cup {"/"}, "-")
        t5 == LET keep(c) == c \in SlugChars IN SelectSeq(t4, keep)
        t6 == ReplaceRuns(t5, {"-"}, "-")
    IN  Strip(t6, {"-"})

-----------------------------------------------------------------------------
(* Python dicts and lists *)

\* dict.get(k, default); a dict is a function on its keys.
Get(d, k, default) == IF k \in DOMAIN d THEN d[k] ELSE default

\* d[k] = v
Put(d, k, v) == [x \in DOMAIN d \cup {k} |-> IF x = k THEN v ELSE d[x]]

\* {}
EmptyDict == << >>

\* dict.values()
Range2(d) == {d[k] : k \in DOMAIN d}

\* Lexicographic order of two strings by code point (str.__lt__).
RECURSIVE StrLess(_, _)
StrLess(a, b) ==
    IF b = << >> THEN FALSE
    ELSE IF a = << >> THEN TRUE
    ELSE IF a[1] = b[1] THEN StrLess(Tail(a), Tail(b))
    ELSE Ord(a[1]) < Ord(b[1])

\* sorted(S) for a set of strings.
RECURSIVE sorted(_)
sorted(S) ==
    IF S = {} THEN << >>
    ELSE LET least == CHOOSE x \in S : \A y \in S \ {x} : StrLess(x, y)
         IN  <<least>> \o sorted(S \ {least})

-----------------------------------------------------------------------------
(* scripts/generate-spanish-audio.py : is_spanish_text *)

\* spanish_chars
spanish_chars == {"¿", "¡", "ñ", "á", "é", "í", "ó", "ú", "ü"}

\* common_spanish
common_spanish ==
    { <<"h", "o", "l", "a">>,
      <<"a", "d", "i", "ó", "s">>,
      <<"g", "r", "a", "c", "i", "a", "s">>,
      <<"p", "o", "r", " ", "f", "a", "v", "o", "r">>,
      <<"b", "u", "e", "n", "o", "s", " ", "d", "í", "a", "s">>,
      <<"b", "u", "e", "n", "a", "s", " ", "t", "a", "r", "d", "e", "s">>,
      <<"b", "u", "e", "n", "a", "s", " ", "n", "o", "c", "h", "e", "s">>,
      <<"c", "ó", "m", "o">>,
      <<"q", "u", "é">>,
      <<"d", "ó", "n", "d", "e">>,
      <<"c", "u", "á", "n", "d", "o">>,
      <<"m", "e", " ", "l", "l", "a", "m", "o">>,
      <<"s", "o", "y">>,
      <<"e", "l">>, <<"l", "a">>, <<"l", "o", "s">>, <<"l", "a", "s">>,
      <<"u", "n">>, <<"u", "n", "a">>,
      <<"p", "e", "r", "r", "o">>, <<"g", "a", "t", "o">>,
      <<"p", "a", "d", "r", "e">>, <<"m", "a", "d", "r", "e">> }

is_spanish_text(text) ==
    IF text = << >> THEN FALSE
    ELSE LET text_lower == str_lower(text)
         IN  \/ \E char \in spanish_chars : Contains(text_lower, <<char>>)
             \/ \E word \in common_spanish : Contains(text_lower, word)

-----------------------------------------------------------------------------
(* scripts/generate-spanish-audio.py : extract_spanish_text_from_json *)

\* The texts one task contributes (the body of `for task in tasks`).
TaskTexts(task) ==
    LET content   == Get(task, "content", EmptyDict)
        task_type == Get(task, "type", "")
    IN  CASE task_type = "multiple-choice" ->
               {o \in Range(Get(content, "options", << >>)) : is_spanish_text(o)}
          [] task_type = "text-input" ->
               {a \in {Get(content, "correctAnswer", << >>)}
                        \cup Range(Get(content, "alternatives", << >>)) :
                    is_spanish_text(a)}
          [] task_type = "flashcard" ->
               LET front      == Get(content, "front", << >>)
                   back       == Get(content, "back", << >>)
                   front_lang == Get(content, "frontLanguage", "")
                   back_lang  == Get(content, "backLanguage", "")
               IN  {t \in {front} : front_lang = "es" /\ is_spanish_text(t)}
                   \cup {t \in {back} : back_lang = "es" /\ is_spanish_text(t)}
          [] task_type = "matching" ->
               LET pairs == Get(content, "pairs", << >>)
               IN  {t \in {Get(pairs[i], "left", << >>) : i \in 1..Len(pairs)}
                            \cup {Get(pairs[i], "right", << >>) : i \in 1..Len(pairs)} :
                        is_spanish_text(t)}
          [] task_type = "drag-and-drop" ->
               {i \in Range(Get(content, "items", << >>)) : is_spanish_text(i)}
          [] OTHER -> {}

\* The set returned for the parsed content `data` of one file.
extract_spanish_text_from_json(data) ==
    LET tasks == Get(data, "tasks", << >>)
    IN  UNION {TaskTexts(tasks[i]) : i \in 1..Len(tasks)}

-----------------------------------------------------------------------------
(* Learning-path files the model draws its inputs from *)

Hola   == <<"H", "o", "l", "a">>
HolaLc == <<"h", "o", "l", "a">>
Casa   == <<"C", "a", "s", "a">>
Punct  == <<"¿", "?">>
Adios  == <<"a", "d", "i", "ó", "s">>
ElGato == <<"e", "l", " ", "g", "a", "t", "o">>
Hi     == <<"h", "i">>

\* A file is [json |-> whether json.load accepts it, data |-> the parsed dict].
F_malformed == [json |-> FALSE, data |-> EmptyDict]

F_hola ==
    [json |-> TRUE,
     data |-> [tasks |-> <<
        [type |-> "flashcard",
         content |-> [front |-> Hola, frontLanguage |-> "es"]] >>]]

F_mixed ==
    [json |-> TRUE,
     data |-> [tasks |-> <<
        [type |-> "flashcard",
         content |-> [front |-> Casa, frontLanguage |-> "es",
                      back |-> HolaLc, backLanguage |-> "es"]] >>]]

F_punct ==
    [json |-> TRUE,
     data |-> [tasks |-> <<
        [type |-> "flashcard",
         content |-> [front |-> Punct, frontLanguage |-> "es",
                      back |-> Hi, backLanguage |-> "en"]],
        [type |-> "text-input",
         content |-> [correctAnswer |-> Adios, alternatives |-> <<Hola>>]] >>]]

F_choice ==
    [json |-> TRUE,
     data |-> [tasks |-> <<
        [type |-> "multiple-choice", content |-> [options |-> <<Hola, Hi>>]],
        [type |-> "matching",
         content |-> [pairs |-> <<[left |-> ElGato, right |-> Hi]>>]],
        [type |-> "drag-and-drop", content |-> [items |-> <<Adios>>]],
        [type |-> "cloze", content |-> [text |-> Hola]] >>]]

F_tag ==
    [json |-> TRUE,
     data |-> [tasks |-> <<
        [type |-> "flashcard",
         content |-> [front |-> Hola, frontLanguage |-> "de",
                      back |-> Adios, backLanguage |-> "es"]],
        [type |-> "flashcard"] >>]]

\* 'hola ' * 60: a text whose file name is longer than a file name may be.
LongHola == [i \in 1..300 |-> <<"h", "o", "l", "a", " ">>[((i - 1) % 5) + 1]]

F_long ==
    [json |-> TRUE,
     data |-> [tasks |-> <<
        [type |-> "flashcard",
         content |-> [front |-> LongHola, frontLanguage |-> "es",
                      back |-> Hi, backLanguage |-> "en"]] >>]]

FilePool == {F_malformed, F_hola, F_mixed, F_punct, F_choice, F_tag}

\* Number of file names LEARNING_PATHS_DIR can hold.
MaxFiles == 2

FileNames == 1..MaxFiles

\* A directory holding the file with the long text.
LongDir == [f \in {1} |-> F_long]

-----------------------------------------------------------------------------
(* scripts/generate-spanish-audio.py : generate_audio_file, main *)

Mp3 == <<".", "m", "p", "3">>

NoFile == [exists |-> FALSE, data |-> EmptyDict]

\* What gTTS(...) followed by tts.save(path) can do: write the file ("saved"),
\* raise before the file is created ("error"), or raise after the file was
\* created ("partial").
TTSOutcomes == {"saved", "error", "partial"}

\* A plausible slip: no try/except, the exception reaches main.
generate_audio_file_raises(text, output_path, outcome) ==
    [returns |-> outcome = "saved",
     raises  |-> outcome # "saved",
     written |-> IF outcome = "error" THEN {} ELSE {output_path}]

\* A plausible slip: the except branch returns True as well.
generate_audio_file_true(text, output_path, outcome) ==
    [returns |-> TRUE,
     raises  |-> FALSE,
     written |-> IF outcome = "error" THEN {} ELSE {output_path}]

\* The value returned, whether an exception leaves the function, and the
\* files written.
generate_audio_file(text, output_path, outcome) ==
    [returns |-> outcome = "saved",
     raises  |-> FALSE,
     written |-> IF outcome = "error" THEN {} ELSE {output_path}]

\* A plausible slip: the file name is built from the raw text.
asset_filename_raw(text) == text \o Mp3

\* filename = normalize_filename(text) + ".mp3"
asset_filename(text) == normalize_filename(text) \o Mp3

\* The longest file name the file system of AUDIO_OUTPUT_DIR takes.
NAME_MAX == 255

\* A plausible slip: the existence check never succeeds.
output_path_exists_never(filename) == "False"

\* output_path.exists(): "True" or "False", or "OSError" when stat refuses
\* the name as too long (pathlib passes that error on).
output_path_exists(filename) ==
    IF Len(filename) > NAME_MAX THEN "OSError"
    ELSE IF filename \in assets THEN "True"
    ELSE "False"

\* The values main's variables have outside the generation loop.
RunReset ==
    /\ processed' = {}
    /\ all_spanish_texts' = {}
    /\ todo' = << >>
    /\ manifest' = EmptyDict
    /\ success_count' = 0
    /\ skipped' = {}
    /\ synthCalls' = {}
    /\ failed' = {}

Ended == pc \in {"idle", "done", "crashed", "returned", "interrupted"}

\* main up to the glob: the script is started.
StartRun ==
    /\ Ended
    /\ RunReset
    /\ prevManifest' = manifestFile
    /\ incremental' = (pc = "done" /\ failed = {})
    /\ pc' = IF dir_exists THEN "extract" ELSE "returned"
    /\ UNCHANGED <<nvars, uvars, files, dir_exists, assets, manifestFile>>

\* One iteration of `for json_file in json_files`; json.load raises on a
\* malformed file and nothing catches it.
ExtractFile(f) ==
    /\ pc = "extract"
    /\ f \in DOMAIN files \ processed
    /\ IF files[f].json
       THEN /\ all_spanish_texts' =
                  all_spanish_texts \cup extract_spanish_text_from_json(files[f].data)
            /\ processed' = processed \cup {f}
            /\ pc' = pc
       ELSE /\ pc' = "crashed"
            /\ UNCHANGED <<all_spanish_texts, processed>>
    /\ UNCHANGED <<nvars, uvars, files, dir_exists, assets, manifestFile, todo, manifest,
                   success_count, skipped, synthCalls, failed, prevManifest,
                   incremental>>

\* After the extraction loop: manifest = {}, success_count = 0 and the
\* sorted iteration is set up.
BeginGenerate ==
    /\ pc = "extract"
    /\ processed = DOMAIN files
    /\ todo' = sorted(all_spanish_texts)
    /\ manifest' = EmptyDict
    /\ success_count' = 0
    /\ pc' = "generate"
    /\ UNCHANGED <<nvars, uvars, files, dir_exists, assets, manifestFile, processed,
                   all_spanish_texts, skipped, synthCalls, failed, prevManifest,
                   incremental>>

\* A plausible slip: the manifest is dumped after every recorded entry.
SkipExistingPersisting ==
    /\ pc = "generate"
    /\ todo # << >>
    /\ LET text     == Head(todo)
           filename == asset_filename(text)
       IN  /\ output_path_exists(filename) = "True"
           /\ manifest' = Put(manifest, text, filename)
           /\ manifestFile' = [exists |-> TRUE,
                               data |-> Put(manifest, text, filename)]
           /\ success_count' = success_count + 1
           /\ skipped' = skipped \cup {text}
    /\ todo' = Tail(todo)
    /\ UNCHANGED <<nvars, uvars, files, dir_exists, assets, pc, processed,
                   all_spanish_texts, synthCalls, failed, prevManifest, incremental>>

\* One iteration of `for text in sorted(all_spanish_texts)` whose file exists.
SkipExisting ==
    /\ pc = "generate"
    /\ todo # << >>
    /\ LET text     == Head(todo)
           filename == asset_filename(text)
       IN  /\ output_path_exists(filename) = "True"
           /\ manifest' = Put(manifest, text, filename)
           /\ success_count' = success_count + 1
           /\ skipped' = skipped \cup {text}
    /\ todo' = Tail(todo)
    /\ UNCHANGED <<nvars, uvars, files, dir_exists, assets, manifestFile, pc, processed,
                   all_spanish_texts, synthCalls, failed, prevManifest, incremental>>

\* One iteration of `for text in sorted(all_spanish_texts)` whose file does
\* not exist: generate_audio_file is called.
Synthesize(outcome) ==
    /\ pc = "generate"
    /\ todo # << >>
    /\ LET text     == Head(todo)
           filename == asset_filename(text)
           r        == generate_audio_file(text, filename, outcome)
       IN  /\ output_path_exists(filename) = "False"
           /\ assets' = assets \cup r.written
           /\ synthCalls' = synthCalls \cup {text}
           /\ failed' = IF outcome = "saved" THEN failed ELSE failed \cup {text}
           /\ IF r.raises
              THEN /\ pc' = "crashed"
                   /\ UNCHANGED <<manifest, success_count, todo>>
              ELSE /\ pc' = pc
                   /\ todo' = Tail(todo)
                   /\ IF r.returns
                      THEN /\ manifest' = Put(manifest, text, filename)
                           /\ success_count' = success_count + 1
                      ELSE UNCHANGED <<manifest, success_count>>
    /\ UNCHANGED <<nvars, uvars, files, dir_exists, manifestFile, processed,
                   all_spanish_texts, skipped, prevManifest, incremental>>

\* One iteration of `for text in sorted(all_spanish_texts)` in which
\* output_path.exists() raises: nothing catches the OSError and main ends
\* before the manifest is written.
ExistsRaises ==
    /\ pc = "generate"
    /\ todo # << >>
    /\ output_path_exists(asset_filename(Head(todo))) = "OSError"
    /\ pc' = "crashed"
    /\ UNCHANGED <<nvars, uvars, files, dir_exists, assets, manifestFile, processed,
                   all_spanish_texts, todo, manifest, success_count, skipped,
                   synthCalls, failed, prevManifest, incremental>>

\* The process is killed (Ctrl-C, SIGTERM) between two iterations of the
\* generation loop, before the loop has ended: nothing is written.
Interrupt ==
    /\ pc = "generate"
    /\ todo # << >>
    /\ pc' = "interrupted"
    /\ UNCHANGED <<nvars, uvars, files, dir_exists, assets, manifestFile, processed,
                   all_spanish_texts, todo, manifest, success_count, skipped,
                   synthCalls, failed, prevManifest, incremental>>

\* A plausible slip: the manifest on disk is merged with the run's entries.
WriteManifestMerged ==
    /\ pc = "generate"
    /\ todo = << >>
    /\ manifestFile' =
          [exists |-> TRUE,
           data |-> [t \in DOMAIN manifestFile.data \cup DOMAIN manifest |->
                        IF t \in DOMAIN manifest THEN manifest[t]
                        ELSE manifestFile.data[t]]]
    /\ pc' = "done"
    /\ UNCHANGED <<nvars, uvars, files, dir_exists, assets, processed, all_spanish_texts,
                   todo, manifest, success_count, skipped, synthCalls, failed,
                   prevManifest, incremental>>

\* After the loop: json.dump(manifest, ..., sort_keys=True) into MANIFEST_FILE.
WriteManifest ==
    /\ pc = "generate"
    /\ todo = << >>
    /\ manifestFile' = [exists |-> TRUE, data |-> manifest]
    /\ pc' = "done"
    /\ UNCHANGED <<nvars, uvars, files, dir_exists, assets, processed, all_spanish_texts,
                   todo, manifest, success_count, skipped, synthCalls, failed,
                   prevManifest, incremental>>

\* After a run somebody edits LEARNING_PATHS_DIR: a file is added, replaced
\* or removed.  The process of the last run is gone.
EditInputs(f, c) ==
    /\ pc \in {"done", "crashed", "interrupted"}
    /\ dir_exists
    /\ \/ /\ c \in FilePool
          /\ Get(files, f, c) # c \/ f \notin DOMAIN files
          /\ files' = Put(files, f, c)
       \/ /\ f \in DOMAIN files
          /\ files' = [g \in DOMAIN files \ {f} |-> files[g]]
    /\ RunReset
    /\ pc' = "idle"
    /\ UNCHANGED <<nvars, uvars, dir_exists, assets, manifestFile, prevManifest, incremental>>

WorkflowIdle ==
    /\ files = EmptyDict
    /\ dir_exists = FALSE
    /\ assets = {}
    /\ manifestFile = NoFile
    /\ pc = "off"
    /\ processed = {}
    /\ all_spanish_texts = {}
    /\ todo = << >>
    /\ manifest = EmptyDict
    /\ success_count = 0
    /\ skipped = {}
    /\ synthCalls = {}
    /\ failed = {}
    /\ prevManifest = NoFile
    /\ incremental = FALSE

-----------------------------------------------------------------------------
(* scripts/add-audio-to-flashcards.py *)

\* r'[¿¡…?!,.()\[\]{}]'
UpdPunctuation ==
    {"¿", "¡", "U+2026", "?", "!", ",", ".", "(", ")", "[", "]", "{", "}"}

\* replacements = {'á': 'a', ..., 'Á': 'A', ...}
UpdReplacements ==
    [c \in {"á", "é", "í", "ó", "ú", "ñ", "Á", "É", "Í", "Ó", "Ú", "Ñ"} |->
        CASE c = "á" -> "a" [] c = "é" -> "e" [] c = "í" -> "i"
          [] c = "ó" -> "o" [] c = "ú" -> "u" [] c = "ñ" -> "n"
          [] c = "Á" -> "A" [] c = "É" -> "E" [] c = "Í" -> "I"
          [] c = "Ó" -> "O" [] c = "Ú" -> "U" [] c = "Ñ" -> "N"]

text_to_audio_filename(text) ==
    LET t1 == RemoveChars(text, UpdPunctuation)
        t2 == MapChars(t1, UpdReplacements)
        t3 == Strip(str_lower(t2), Whitespace)
    IN  ReplaceRuns(t3, Whitespace, "-")

SpanishDir == <<"s", "p", "a", "n", "i", "s", "h", "/">>

\* A plausible slip: the path is derived from the audio field already on
\* the record when there is one.
add_audio_to_flashcard_chained(task) ==
    IF Get(task, "type", "") # "flashcard" THEN task
    ELSE LET content == Get(task, "content", EmptyDict)
             c1 == IF Get(content, "frontLanguage", "") = "es"
                      /\ Get(content, "front", << >>) # << >>
                   THEN Put(content, "frontAudio",
                            SpanishDir
                              \o text_to_audio_filename(
                                   Get(content, "frontAudio", content["front"]))
                              \o Mp3)
                   ELSE content
             c2 == IF Get(c1, "backLanguage", "") = "es"
                      /\ Get(c1, "back", << >>) # << >>
                   THEN Put(c1, "backAudio",
                            SpanishDir
                              \o text_to_audio_filename(
                                   Get(c1, "backAudio", c1["back"]))
                              \o Mp3)
                   ELSE c1
         IN  Put(task, "content", c2)

add_audio_to_flashcard(task) ==
    IF Get(task, "type", "") # "flashcard" THEN task
    ELSE LET content == Get(task, "content", EmptyDict)
             c1 == IF Get(content, "frontLanguage", "") = "es"
                      /\ Get(content, "front", << >>) # << >>
                   THEN Put(content, "frontAudio",
                            SpanishDir \o text_to_audio_filename(content["front"])
                                       \o Mp3)
                   ELSE content
             c2 == IF Get(c1, "backLanguage", "") = "es"
                      /\ Get(c1, "back", << >>) # << >>
                   THEN Put(c1, "backAudio",
                            SpanishDir \o text_to_audio_filename(c1["back"])
                                       \o Mp3)
                   ELSE c1
         IN  Put(task, "content", c2)

\* process_learning_path_file on the parsed content `data`: the content
\* written back, len(tasks) and updated_count.
process_learning_path_file(data) ==
    LET tasks   == Get(data, "tasks", << >>)
        updated == [i \in 1..Len(tasks) |-> add_audio_to_flashcard(tasks[i])]
        added(i) ==
            LET old_content == Get(tasks[i], "content", EmptyDict)
                new_content == Get(updated[i], "content", EmptyDict)
            IN  \/ "frontAudio" \in DOMAIN new_content
                   /\ "frontAudio" \notin DOMAIN old_content
                \/ "backAudio" \in DOMAIN new_content
                   /\ "backAudio" \notin DOMAIN old_content
    IN  [data    |-> IF "tasks" \in DOMAIN data
                     THEN [data EXCEPT !["tasks"] = updated]
                     ELSE data,
         tasks   |-> Len(tasks),
         updated |-> Cardinality({i \in 1..Len(tasks) : added(i)})]

\* sorted(json_files) for file names that are numbers.
RECURSIVE sorted_names(_)
sorted_names(S) ==
    IF S = {} THEN << >>
    ELSE LET least == CHOOSE x \in S : \A y \in S : x <= y
         IN  <<least>> \o sorted_names(S \ {least})

UpdEnded == u_pc \in {"idle", "done", "crashed", "returned"}

\* main up to the loop: the script is started.
UpdStart ==
    /\ UpdEnded
    /\ u_snapshot' = files
    /\ u_settled' = (u_pc = "done")
    /\ total_tasks' = 0
    /\ total_updated' = 0
    /\ IF dir_exists /\ DOMAIN files # {}
       THEN /\ u_left' = sorted_names(DOMAIN files)
            /\ u_pc' = "running"
       ELSE /\ u_left' = << >>
            /\ u_pc' = "returned"
    /\ UNCHANGED <<nvars, wvars, v_data, v_pc, v_snapshot, v_settled>>

\* One iteration of `for filepath in sorted(json_files)`; json.load raises
\* on a malformed file and nothing catches it.
UpdProcessFile ==
    /\ u_pc = "running"
    /\ u_left # << >>
    /\ LET f == Head(u_left)
       IN  IF files[f].json
           THEN LET r == process_learning_path_file(files[f].data)
                IN  /\ files' = [files EXCEPT ![f].data = r.data]
                    /\ total_tasks' = total_tasks + r.tasks
                    /\ total_updated' = total_updated + r.updated
                    /\ u_left' = Tail(u_left)
                    /\ u_pc' = u_pc
           ELSE /\ u_pc' = "crashed"
                /\ UNCHANGED <<files, total_tasks, total_updated, u_left>>
    /\ UNCHANGED <<nvars, dir_exists, assets, manifestFile, pc, processed,
                   all_spanish_texts, todo, manifest, success_count, skipped,
                   synthCalls, failed, prevManifest, incremental,
                   u_snapshot, u_settled, v_data, v_pc, v_snapshot, v_settled>>

\* After the loop: the summary is printed and main returns.
UpdFinish ==
    /\ u_pc = "running"
    /\ u_left = << >>
    /\ u_pc' = "done"
    /\ UNCHANGED <<nvars, wvars, u_left, total_tasks, total_updated, u_snapshot,
                   u_settled, v_data, v_pc, v_snapshot, v_settled>>

-----------------------------------------------------------------------------
(* scripts/generation/generate-audio.py : the JSON update *)

\* verb_forms; a verb is written as a string, and the path
\* f"english/verbs/{verb}.mp3" as the tuple of its three parts.
verb_forms ==
    << <<"go", "went", "gone">>,          <<"eat", "ate", "eaten">>,
       <<"drink", "drank", "drunk">>,     <<"see", "saw", "seen">>,
       <<"come", "came", "come">>,        <<"take", "took", "taken">>,
       <<"give", "gave", "given">>,       <<"make", "made", "made">>,
       <<"write", "wrote", "written">>,   <<"know", "knew", "known">>,
       <<"speak", "spoke", "spoken">>,    <<"break", "broke", "broken">>,
       <<"bring", "brought", "brought">>, <<"buy", "bought", "bought">>,
       <<"think", "thought", "thought">>, <<"begin", "began", "begun">>,
       <<"sing", "sang", "sung">>,        <<"swim", "swam", "swum">>,
       <<"run", "ran", "run">>,           <<"fly", "flew", "flown">>,
       <<"find", "found", "found">>,      <<"tell", "told", "told">>,
       <<"feel", "felt", "felt">>,        <<"fall", "fell", "fallen">>,
       <<"catch", "caught", "caught">>,   <<"teach", "taught", "taught">>,
       <<"sleep", "slept", "slept">>,     <<"wear", "wore", "worn">>,
       <<"meet", "met", "met">>,          <<"forget", "forgot", "forgotten">> >>

VerbPath(verb) == <<"english/verbs/", verb, ".mp3">>

\* The body of `for i, task in enumerate(data['tasks'])` for the task at
\* position n (1-based; i = n - 1).
update_verb_task(tasks, n) ==
    LET i == n - 1
        verb_index == i \div 2
        is_simple_past == (i % 2 = 0)
        task == tasks[n]
    IN  IF verb_index < Len(verb_forms)
        THEN LET correct_answer ==
                     IF is_simple_past THEN verb_forms[verb_index + 1][2]
                                       ELSE verb_forms[verb_index + 1][3]
                 content == Put(Put(task["content"], "correctAnswerLanguage", "en"),
                                "correctAnswerAudio", VerbPath(correct_answer))
             IN  Put(Put(Put(Put(task, "content", content),
                             "hasAudio", TRUE),
                         "audioUrl", VerbPath(correct_answer)),
                     "language", "English")
        ELSE task

\* task['content'] raises KeyError for a task in reach of verb_forms that
\* has no content.
VerbUpdateRaises(tasks) ==
    \E n \in 1..Len(tasks) :
        /\ (n - 1) \div 2 < Len(verb_forms)
        /\ "content" \notin DOMAIN tasks[n]

\* The script from json.load to json.dump: the file is rewritten unless the
\* loop raised.
VerbUpdate ==
    /\ v_pc \in {"idle", "done", "improved", "crashed"}
    /\ v_snapshot' = v_data
    /\ v_settled' = (v_pc = "done")
    /\ LET tasks == v_data["tasks"]
       IN  IF VerbUpdateRaises(tasks)
           THEN /\ v_pc' = "crashed"
                /\ UNCHANGED v_data
           ELSE /\ v_pc' = "done"
                /\ v_data' = [v_data EXCEPT !["tasks"] =
                                 [n \in 1..Len(tasks) |-> update_verb_task(tasks, n)]]
    /\ UNCHANGED <<nvars, wvars, u_pc, u_left, total_tasks, total_updated,
                   u_snapshot, u_settled>>

-----------------------------------------------------------------------------
(* scripts/generation/improve-irregular-verbs.py *)

\* verb_data in the order of its keys; hints and sentences are strings.
verb_data ==
    << [verb |-> "go",
        simple_past |->
           [hint |-> "Rhymes with 'went'",
            sentence |-> "Yesterday, I ___ to school"],
        past_participle |->
           [hint |-> "Rhymes with 'phone'",
            sentence |-> "I have ___ to Paris before"]],
       [verb |-> "eat",
        simple_past |->
           [hint |-> "Sounds like the number 8",
            sentence |-> "She ___ an apple for lunch"],
        past_participle |->
           [hint |-> "Ends with '-en'",
            sentence |-> "We have ___ breakfast already"]],
       [verb |-> "drink",
        simple_past |->
           [hint |-> "Rhymes with 'bank'",
            sentence |-> "He ___ water after running"],
        past_participle |->
           [hint |-> "Rhymes with 'trunk'",
            sentence |-> "They have ___ all the juice"]],
       [verb |-> "see",
        simple_past |->
           [hint |-> "A tool for cutting wood",
            sentence |-> "I ___ a beautiful sunset yesterday"],
        past_participle |->
           [hint |-> "Rhymes with 'been'",
            sentence |-> "Have you ___ this movie?"]],
       [verb |-> "come",
        simple_past |->
           [hint |-> "Rhymes with 'game'",
            sentence |-> "She ___ to the party last night"],
        past_participle |->
           [hint |-> "Same as infinitive",
            sentence |-> "They have ___ home early"]],
       [verb |-> "take",
        simple_past |->
           [hint |-> "Rhymes with 'book'",
            sentence |-> "I ___ the bus this morning"],
        past_participle |->
           [hint |-> "Ends with '-en'",
            sentence |-> "She has ___ my pen"]],
       [verb |-> "give",
        simple_past |->
           [hint |-> "Rhymes with 'save'",
            sentence |-> "He ___ me a present"],
        past_participle |->
           [hint |-> "Ends with '-en'",
            sentence |-> "I have ___ him the key"]],
       [verb |-> "make",
        simple_past |->
           [hint |-> "Rhymes with 'paid'",
            sentence |-> "She ___ a delicious cake"],
        past_participle |->
           [hint |-> "Same as simple past",
            sentence |-> "We have ___ a decision"]],
       [verb |-> "write",
        simple_past |->
           [hint |-> "Rhymes with 'boat'",
            sentence |-> "I ___ a letter yesterday"],
        past_participle |->
           [hint |-> "Ends with '-en'",
            sentence |-> "She has ___ three books"]],
       [verb |-> "know",
        simple_past |->
           [hint |-> "Rhymes with 'new'",
            sentence |-> "I ___ the answer immediately"],
        past_participle |->
           [hint |-> "Rhymes with 'grown'",
            sentence |-> "I have ___ her for years"]],
       [verb |-> "speak",
        simple_past |->
           [hint |-> "Rhymes with 'broke'",
            sentence |-> "She ___ to the manager"],
        past_participle |->
           [hint |-> "Ends with '-en'",
            sentence |-> "Have you ___ to him?"]],
       [verb |-> "break",
        simple_past |->
           [hint |-> "Rhymes with 'woke'",
            sentence |-> "I ___ my phone yesterday"],
        past_participle |->
           [hint |-> "Ends with '-en'",
            sentence |-> "The window has been ___"]],
       [verb |-> "bring",
        simple_past |->
           [hint |-> "Rhymes with 'thought'",
            sentence |-> "She ___ snacks to the party"],
        past_participle |->
           [hint |-> "Same as simple past",
            sentence |-> "He has ___ his guitar"]],
       [verb |-> "buy",
        simple_past |->
           [hint |-> "Rhymes with 'caught'",
            sentence |-> "I ___ a new car last week"],
        past_participle |->
           [hint |-> "Same as simple past",
            sentence |-> "They have ___ a house"]],
       [verb |-> "think",
        simple_past |->
           [hint |-> "Rhymes with 'caught'",
            sentence |-> "I ___ about you yesterday"],
        past_participle |->
           [hint |-> "Same as simple past",
            sentence |-> "I have ___ about it carefully"]],
       [verb |-> "begin",
        simple_past |->
           [hint |-> "Changes 'i' to 'a'",
            sentence |-> "The concert ___ at 8 PM"],
        past_participle |->
           [hint |-> "Changes 'i' to 'u'",
            sentence |-> "The work has ___"]],
       [verb |-> "sing",
        simple_past |->
           [hint |-> "Rhymes with 'rang'",
            sentence |-> "She ___ a beautiful song"],
        past_participle |->
           [hint |-> "Rhymes with 'rung'",
            sentence |-> "He has ___ in many choirs"]],
       [verb |-> "swim",
        simple_past |->
           [hint |-> "Rhymes with 'jam'",
            sentence |-> "I ___ in the lake yesterday"],
        past_participle |->
           [hint |-> "Rhymes with 'gum'",
            sentence |-> "I have ___ across this river"]],
       [verb |-> "run",
        simple_past |->
           [hint |-> "Rhymes with 'can'",
            sentence |-> "She ___ to catch the bus"],
        past_participle |->
           [hint |-> "Same as infinitive",
            sentence |-> "I have ___ five kilometers"]],
       [verb |-> "fly",
        simple_past |->
           [hint |-> "Rhymes with 'knew'",
            sentence |-> "The bird ___ away"],
        past_participle |->
           [hint |-> "Rhymes with 'grown'",
            sentence |-> "I have ___ to Paris twice"]],
       [verb |-> "find",
        simple_past |->
           [hint |-> "Rhymes with 'sound'",
            sentence |-> "I ___ my keys under the bed"],
        past_participle |->
           [hint |-> "Same as simple past",
            sentence |-> "Have you ___ a solution?"]],
       [verb |-> "tell",
        simple_past |->
           [hint |-> "Rhymes with 'old'",
            sentence |-> "She ___ me a secret"],
        past_participle |->
           [hint |-> "Same as simple past",
            sentence |-> "I have ___ you before"]],
       [verb |-> "feel",
        simple_past |->
           [hint |-> "Rhymes with 'belt'",
            sentence |-> "I ___ very happy yesterday"],
        past_participle |->
           [hint |-> "Same as simple past",
            sentence |-> "I have ___ this way before"]],
       [verb |-> "fall",
        simple_past |->
           [hint |-> "Rhymes with 'bell'",
            sentence |-> "The book ___ off the table"],
        past_participle |->
           [hint |-> "Ends with '-en'",
            sentence |-> "The snow has ___"]],
       [verb |-> "catch",
        simple_past |->
           [hint |-> "Rhymes with 'thought'",
            sentence |-> "I ___ the ball easily"],
        past_participle |->
           [hint |-> "Same as simple past",
            sentence |-> "I have ___ a cold"]],
       [verb |-> "teach",
        simple_past |->
           [hint |-> "Rhymes with 'caught'",
            sentence |-> "She ___ me English"],
        past_participle |->
           [hint |-> "Same as simple past",
            sentence |-> "I have ___ for 10 years"]],
       [verb |-> "sleep",
        simple_past |->
           [hint |-> "Rhymes with 'kept'",
            sentence |-> "I ___ very well last night"],
        past_participle |->
           [hint |-> "Same as simple past",
            sentence |-> "I have ___ for 8 hours"]],
       [verb |-> "wear",
        simple_past |->
           [hint |-> "Rhymes with 'more'",
            sentence |-> "She ___ a blue dress"],
        past_participle |->
           [hint |-> "Rhymes with 'born'",
            sentence |-> "I have ___ these shoes before"]],
       [verb |-> "meet",
        simple_past |->
           [hint |-> "Rhymes with 'bet'",
            sentence |-> "I ___ her at the party"],
        past_participle |->
           [hint |-> "Same as simple past",
            sentence |-> "We have ___ before"]],
       [verb |-> "forget",
        simple_past |->
           [hint |-> "Rhymes with 'hot'",
            sentence |-> "I ___ my password"],
        past_participle |->
           [hint |-> "Ends with '-en'",
            sentence |-> "I have ___ his name"]] >>

\* Position of the first occurrence of the character c in s, 0 if none.
StrIndex(s, c) ==
    IF \E i \in 1..Len(s) : SubSeq(s, i, i) = c
    THEN CHOOSE i \in 1..Len(s) :
            /\ SubSeq(s, i, i) = c
            /\ \A j \in 1..(i - 1) : SubSeq(s, j, j) # c
    ELSE 0

\* s.split(c)[0]
SplitFirst(s, c) ==
    IF StrIndex(s, c) = 0 THEN s ELSE SubSeq(s, 1, StrIndex(s, c) - 1)

\* s.split(c)[1], for an s that holds c.
SplitSecond(s, c) ==
    SplitFirst(SubSeq(s, StrIndex(s, c) + 1, Len(s)), c)

\* s.replace(old, new)
RECURSIVE str_replace(_, _, _)
str_replace(s, old, new) ==
    IF Len(s) < Len(old) THEN s
    ELSE IF SubSeq(s, 1, Len(old)) = old
         THEN new \o str_replace(SubSeq(s, Len(old) + 1, Len(s)), old, new)
         ELSE SubSeq(s, 1, 1) \o str_replace(SubSeq(s, 2, Len(s)), old, new)

\* options[correctAnswer]: a list index, negative ones counting from the end.
ListItem(list, k) == IF k >= 0 THEN list[k + 1] ELSE list[Len(list) + k + 1]

\* The body of `for i, task in enumerate(data['tasks'])` for the task at
\* position n (1-based; i = n - 1).
improve_verb_task(tasks, n) ==
    LET i == n - 1
        verb_index == i \div 2
        is_simple_past == (i % 2 = 0)
        task == tasks[n]
    IN  IF verb_index < Len(verb_data)
        THEN LET verb_info == verb_data[verb_index + 1]
                 verb == verb_info.verb
                 tense_data == IF is_simple_past THEN verb_info.simple_past
                                                 ELSE verb_info.past_participle
                 content == task["content"]
                 verb_german ==
                     IF StrIndex(content["question"], "(") # 0
                     THEN SplitFirst(SplitSecond(content["question"], "("), ")")
                     ELSE verb
                 question ==
                     "Fill in: " \o tense_data.sentence \o " (" \o verb_german \o ")"
                 correct_answer_text ==
                     IF task["type"] = "multiple-choice"
                     THEN ListItem(content["options"], content["correctAnswer"])
                     ELSE content["correctAnswer"]
                 example ==
                     str_replace(tense_data.sentence, "___", correct_answer_text)
                 explanation ==
                     IF is_simple_past
                     THEN "Das Verb '" \o verb \o "' wird im Simple Past zu '"
                          \o correct_answer_text \o "'. Beispiel: " \o example \o "."
                     ELSE "Das Past Participle von '" \o verb \o "' ist '"
                          \o correct_answer_text \o "'. Beispiel: " \o example \o "."
             IN  Put(task, "content",
                     Put(Put(Put(content, "hint", tense_data.hint),
                             "question", question),
                         "explanation", explanation))
        ELSE task

\* The subscripts that raise (KeyError, IndexError): data['learningPath'],
\* data['tasks'], task['id'] of every task and, for a task in reach of
\* verb_data, task['content'], its 'question', task['type'] and the answer.
ImproveRaises(data) ==
    \/ "learningPath" \notin DOMAIN data
    \/ "tasks" \notin DOMAIN data
    \/ \E n \in 1..Len(data["tasks"]) :
          LET task == data["tasks"][n]
          IN  \/ "id" \notin DOMAIN task
              \/ /\ (n - 1) \div 2 < Len(verb_data)
                 /\ \/ "content" \notin DOMAIN task
                    \/ "question" \notin DOMAIN task["content"]
                    \/ "type" \notin DOMAIN task
                    \/ "correctAnswer" \notin DOMAIN task["content"]
                    \/ /\ task["type"] = "multiple-choice"
                       /\ \/ "options" \notin DOMAIN task["content"]
                          \/ LET options == task["content"]["options"]
                                 k == task["content"]["correctAnswer"]
                             IN  k >= Len(options) \/ k < 0 - Len(options)

\* The script from json.load to json.dump: the file is rewritten unless a
\* subscript raised.
ImproveVerbs ==
    /\ v_pc \in {"idle", "done", "improved", "crashed"}
    /\ v_snapshot' = v_data
    /\ v_settled' = FALSE
    /\ IF ImproveRaises(v_data)
       THEN /\ v_pc' = "crashed"
            /\ UNCHANGED v_data
       ELSE /\ v_pc' = "improved"
            /\ v_data' =
                  LET tasks == v_data["tasks"]
                      learningPath == Put(v_data["learningPath"], "estimatedTime", 2700)
                  IN  [v_data EXCEPT
                          !["learningPath"] = learningPath,
                          !["tasks"] = [n \in 1..Len(tasks) |->
                                           improve_verb_task(tasks, n)]]
    /\ UNCHANGED <<nvars, wvars, u_pc, u_left, total_tasks, total_updated,
                   u_snapshot, u_settled>>

UpdaterIdle ==
    /\ u_pc = "off"
    /\ u_left = << >>
    /\ total_tasks = 0
    /\ total_updated = 0
    /\ u_snapshot = EmptyDict
    /\ u_settled = FALSE

VerbIdle ==
    /\ v_data = [tasks |-> << >>]
    /\ v_pc = "off"
    /\ v_snapshot = [tasks |-> << >>]
    /\ v_settled = FALSE

-----------------------------------------------------------------------------
(* Specification SpecNorm: normalize_filename on every string over a small *)
(* alphabet, up to a bounded length.                                       *)

MaxLen == 4

\* One character of each class the normalizer tells apart: ASCII lower and
\* upper case, accented lower and upper case, digit, whitespace, slash,
\* hyphen, stripped punctuation, and a character dropped by the last filter.
NormAlphabet == {"a", "Z", "é", "Ñ", "7", " ", "/", "-", "¿", "_"}

RECURSIVE SeqsUpTo(_, _)
SeqsUpTo(S, n) ==
    IF n = 0 THEN {<< >>}
    ELSE LET shorter == SeqsUpTo(S, n - 1)
         IN  shorter \cup {Append(s, c) : s \in {t \in shorter : Len(t) = n - 1},
                                          c \in S}

\* The inputs the docstrings and the specification give examples for.
BuenosDias == <<"B", "u", "e", "n", "o", "s", " ", "d", "í", "a", "s">>
ComoEstas  == <<"¿", "C", "ó", "m", "o", " ", "e", "s", "t", "á", "s", "?">>
PunctOnly  == <<"¿", "?", "¡", "!", ".", ".", ".">>

DocumentedInputs == {BuenosDias, ComoEstas, Hola, PunctOnly}

\* Words joined by a hyphen between blanks, by two hyphens, and by hyphens
\* around a character the last filter drops: each leaves a run of hyphens
\* inside the text before the runs are collapsed.
HyphenRunInputs ==
    { <<"a", " ", "-", " ", "b">>,
      <<"a", "-", "-", "b">>,
      <<"a", "-", "_", "-", "b">> }

\* One call of normalize_filename.
NormalizeCall ==
    /\ n_pc = "in"
    /\ n_slug' = normalize_filename(n_text)
    /\ n_pc' = "out"
    /\ UNCHANGED <<n_text, n_audio, n_apc, wvars, uvars>>

\* One call of text_to_audio_filename.
AudioFilenameCall ==
    /\ n_apc = "in"
    /\ n_audio' = text_to_audio_filename(n_text)
    /\ n_apc' = "out"
    /\ UNCHANGED <<n_text, n_slug, n_pc, wvars, uvars>>


InitNorm ==
    /\ n_text \in SeqsUpTo(NormAlphabet, MaxLen) \cup DocumentedInputs
                                                  \cup HyphenRunInputs
    /\ n_slug = << >>
    /\ n_pc = "in"
    /\ n_audio = << >>
    /\ n_apc = "in"
    /\ WorkflowIdle
    /\ UpdaterIdle
    /\ VerbIdle

NextNorm ==
    \/ NormalizeCall
    \/ AudioFilenameCall

SpecNorm == InitNorm /\ [][NextNorm]_vars

-----------------------------------------------------------------------------
(* Specification Spec: runs of generate-spanish-audio.py over a directory  *)
(* of learning-path files, with edits of the inputs between runs.          *)

Init ==
    /\ dir_exists \in BOOLEAN
    /\ files \in IF dir_exists
                 THEN UNION {[S -> FilePool] : S \in SUBSET FileNames} \cup {LongDir}
                 ELSE {EmptyDict}
    /\ assets = {}
    /\ manifestFile = NoFile
    /\ pc = "idle"
    /\ processed = {}
    /\ all_spanish_texts = {}
    /\ todo = << >>
    /\ manifest = EmptyDict
    /\ success_count = 0
    /\ skipped = {}
    /\ synthCalls = {}
    /\ failed = {}
    /\ prevManifest = NoFile
    /\ incremental = FALSE
    /\ n_text = << >>
    /\ n_slug = << >>
    /\ n_pc = "off"
    /\ n_audio = << >>
    /\ n_apc = "off"
    /\ UpdaterIdle
    /\ VerbIdle

Next ==
    \/ StartRun
    \/ \E f \in FileNames : ExtractFile(f)
    \/ BeginGenerate
    \/ SkipExisting
    \/ \E outcome \in TTSOutcomes : Synthesize(outcome)
    \/ WriteManifest
    \/ ExistsRaises
    \/ Interrupt
    \/ \E f \in FileNames, c \in FilePool : EditInputs(f, c)

Spec == Init /\ [][Next]_vars

-----------------------------------------------------------------------------
(* Specification SpecUpd: repeated runs of the scripts that rewrite       *)
(* learning-path files: add-audio-to-flashcards.py over the Spanish files, *)
(* generate-audio.py and improve-irregular-verbs.py over the verb file.    *)

\* A flashcard that already carries audio fields, and one whose tagged
\* front is empty.
F_stale ==
    [json |-> TRUE,
     data |-> [tasks |-> <<
        [type |-> "flashcard",
         content |-> [front |-> Hola, frontLanguage |-> "es",
                      frontAudio |-> <<"o", "l", "d">>,
                      back |-> << >>, backLanguage |-> "es"]] >>]]

\* A file without a tasks list.
F_notasks == [json |-> TRUE, data |-> [learningPath |-> "spanisch"]]

\* A flashcard whose Spanish front holds a slash.
ElLa == <<"e", "l", "/", "l", "a">>

F_slash ==
    [json |-> TRUE,
     data |-> [tasks |-> <<
        [type |-> "flashcard",
         content |-> [front |-> ElLa, frontLanguage |-> "es",
                      back |-> Hi, backLanguage |-> "en"]] >>]]

UpdFilePool == FilePool \cup {F_stale, F_notasks, F_slash}

VT_plain ==
    [type |-> "text-input", content |-> [correctAnswer |-> "went"]]

VT_stale ==
    [type |-> "text-input",
     content |-> [correctAnswer |-> "gone", correctAnswerAudio |-> <<"old">>],
     hasAudio |-> FALSE,
     audioUrl |-> <<"old">>]

VT_nocontent == [type |-> "text-input"]

\* Tasks as the learning path holds them, with id and question.
VT_text ==
    [id |-> "t1", type |-> "text-input",
     content |-> [question |-> "go (gehen)", correctAnswer |-> "went"]]

VT_choice ==
    [id |-> "t2", type |-> "multiple-choice",
     content |-> [question |-> "Past participle of go",
                  options |-> <<"goed", "gone">>, correctAnswer |-> 1]]

VerbTaskPool == {VT_plain, VT_stale, VT_nocontent, VT_text, VT_choice}

\* Number of tasks drawn freely for unregelmaessige-verben.json.
MaxVerbTasks == 2

\* Sixty plain tasks: the tasks after them lie beyond verb_forms.
VerbPadding == [n \in 1..(2 * Len(verb_forms)) |-> VT_plain]

\* Sixty tasks with id and question.
VerbPaddingFull == [n \in 1..(2 * Len(verb_data)) |-> VT_text]

\* The learningPath object of the file.
LearningPath == [id |-> "unregelmaessige-verben", estimatedTime |-> 900]

InitUpd ==
    /\ n_text = << >>
    /\ n_slug = << >>
    /\ n_pc = "off"
    /\ n_audio = << >>
    /\ n_apc = "off"
    /\ assets = {}
    /\ manifestFile = NoFile
    /\ pc = "off"
    /\ processed = {}
    /\ all_spanish_texts = {}
    /\ todo = << >>
    /\ manifest = EmptyDict
    /\ success_count = 0
    /\ skipped = {}
    /\ synthCalls = {}
    /\ failed = {}
    /\ prevManifest = NoFile
    /\ incremental = FALSE
    /\ \/ /\ dir_exists \in BOOLEAN
          /\ files \in IF dir_exists
                       THEN UNION {[S -> UpdFilePool] : S \in SUBSET FileNames}
                       ELSE {EmptyDict}
          /\ u_pc = "idle"
          /\ u_left = << >>
          /\ total_tasks = 0
          /\ total_updated = 0
          /\ u_snapshot = EmptyDict
          /\ u_settled = FALSE
          /\ VerbIdle
       \/ /\ dir_exists = FALSE
          /\ files = EmptyDict
          /\ UpdaterIdle
          /\ \E tail \in SeqsUpTo(VerbTaskPool, MaxVerbTasks),
                pad \in {<< >>, VerbPadding, VerbPaddingFull},
                withPath \in BOOLEAN :
                v_data = IF withPath
                         THEN [learningPath |-> LearningPath, tasks |-> pad \o tail]
                         ELSE [tasks |-> pad \o tail]
          /\ v_pc = "idle"
          /\ v_snapshot = [tasks |-> << >>]
          /\ v_settled = FALSE

NextUpd ==
    \/ UpdStart
    \/ UpdProcessFile
    \/ UpdFinish
    \/ VerbUpdate
    \/ ImproveVerbs

SpecUpd == InitUpd /\ [][NextUpd]_vars

-----------------------------------------------------------------------------
(* Claims about normalize_filename *)

\* ^[a-z0-9]+(-[a-z0-9]+)*$
IsSlug(s) ==
    /\ s # << >>
    /\ \A i \in 1..Len(s) : s[i] \in SlugChars
    /\ s[1] # "-"
    /\ s[Len(s)] # "-"
    /\ \A i \in 1..(Len(s) - 1) : ~(s[i] = "-" /\ s[i + 1] = "-")

\* C1: for every input string, the value normalize_filename returns is the
\* empty string or a slug: only a-z, 0-9 and '-', with no leading, trailing
\* or consecutive hyphen.
C1_SlugShape ==
    n_pc = "out" => (n_slug = << >> \/ IsSlug(n_slug))

\* C1 witness: an upper-case word and an accented word separated by a blank
\* and a hyphen (a run of two hyphens before the collapse) have been
\* normalized to a slug with one inner hyphen.
C1_Witness ==
    /\ n_pc = "out"
    /\ n_text = <<"Z", " ", "-", "é">>
    /\ n_slug = <<"z", "-", "e">>

-----------------------------------------------------------------------------
(* Claims about the asset generation workflow (specification Spec) *)

\* C2: a run that directly follows a completed run in which no synthesis
\* failed, with the input files and the asset directory untouched in
\* between, issues no synthesis call and writes the manifest the run before
\* it wrote.
C2_Incremental ==
    (pc = "done" /\ incremental) =>
        /\ synthCalls = {}
        /\ manifestFile = prevManifest

\* C2 witness: such a second run has finished and has written a manifest of
\* at least two entries, the punctuation-only candidate among them.
C2_Witness ==
    /\ pc = "done"
    /\ incremental
    /\ manifestFile.exists
    /\ Cardinality(DOMAIN manifestFile.data) >= 2
    /\ Punct \in DOMAIN manifestFile.data

\* C3 (as claimed): after a synthesis failure the run never ends with an
\* unhandled error (it goes on generating, finishes, or is interrupted from
\* outside), and a run in which exactly one candidate failed writes a
\* manifest holding every other candidate and not the failed one (N-1
\* entries).
C3_FailureIsolation ==
    /\ failed # {} => pc \in {"generate", "done", "interrupted"}
    /\ (pc = "done" /\ Cardinality(failed) = 1) =>
          /\ Cardinality(DOMAIN manifestFile.data)
                = Cardinality(all_spanish_texts) - 1
          /\ DOMAIN manifestFile.data = all_spanish_texts \ failed

\* C3 (what generate_audio_file does guarantee): the failure itself is
\* caught.  A run that ended with an unhandled error after a failure ended
\* in output_path.exists() of a later candidate, and a run that finished
\* with exactly one failure wrote the other N-1 candidates.
C3_FailureCaught ==
    /\ (failed # {} /\ pc = "crashed") =>
          /\ todo # << >>
          /\ Head(todo) \notin failed
          /\ output_path_exists(asset_filename(Head(todo))) = "OSError"
    /\ (pc = "done" /\ Cardinality(failed) = 1) =>
          DOMAIN manifestFile.data = all_spanish_texts \ failed

\* A run over at least three candidates has finished with exactly one
\* synthesis failure.
C3_Witness ==
    /\ pc = "done"
    /\ Cardinality(failed) = 1
    /\ Cardinality(all_spanish_texts) >= 3
    /\ Cardinality(synthCalls) >= 2

\* C4 (as claimed): a candidate whose slug is empty is skipped: no synthesis
\* call, no asset file and no manifest entry for it.
C4_EmptySlugSkipped ==
    \A text \in all_spanish_texts :
        normalize_filename(text) = << >> =>
            /\ text \notin synthCalls
            /\ text \notin DOMAIN manifest
            /\ Mp3 \notin assets

\* C5: at every point of a run every key of the in-memory manifest maps to
\* a file that exists in the asset directory, was entered after its file
\* was found to exist or its synthesis returned success, and is not a text
\* whose synthesis failed; every entry of the manifest on disk maps to an
\* existing file, and a run that is done wrote no entry for a failed text.
C5_ManifestEntriesExist ==
    /\ \A t \in DOMAIN manifest :
          /\ manifest[t] \in assets
          /\ t \in skipped \cup (synthCalls \ failed)
          /\ t \notin failed
    /\ \A t \in DOMAIN manifestFile.data : manifestFile.data[t] \in assets
    /\ pc = "done" => failed \cap DOMAIN manifestFile.data = {}

\* C5 witness: a finished run recorded one candidate whose file existed and
\* one it synthesized, and one synthesis failed.
C5_Witness ==
    /\ pc = "done"
    /\ failed # {}
    /\ skipped # {}
    /\ synthCalls \ failed # {}
    /\ DOMAIN manifestFile.data = skipped \cup (synthCalls \ failed)

\* C7 (as claimed): every manifest entry maps its text to
\* "spanish/" + slug + ".mp3".
C7_LanguagePrefixedPath ==
    \A t \in DOMAIN manifestFile.data :
        manifestFile.data[t] = SpanishDir \o normalize_filename(t) \o Mp3

\* C7 (amended): every manifest entry written by a run maps a candidate
\* text of that run, unchanged, to the file name slug + ".mp3" (relative to
\* the audio directory of the language); the flashcard
\* {front: "Hola", frontLanguage: "es"} yields "Hola" -> "hola.mp3" unless
\* its synthesis failed.
C7_ManifestFilename ==
    /\ \A t \in DOMAIN manifestFile.data :
          manifestFile.data[t] = normalize_filename(t) \o Mp3
    /\ pc = "done" =>
          /\ DOMAIN manifestFile.data \subseteq all_spanish_texts
          /\ (F_hola \in Range2(files) /\ Hola \notin failed) =>
                /\ Hola \in DOMAIN manifestFile.data
                /\ manifestFile.data[Hola] = <<"h", "o", "l", "a", ".", "m", "p", "3">>

\* C7 witness: a run over the "Hola" flashcard has written its entry.
C7_Witness ==
    /\ pc = "done"
    /\ F_hola \in Range2(files)
    /\ Hola \in synthCalls \ failed
    /\ manifestFile.data[Hola] = <<"h", "o", "l", "a", ".", "m", "p", "3">>

\* C8 (as claimed): every entry of the manifest that was on disk before the
\* run and whose key the run did not record is still there after the run.
C8_MergedWithOld ==
    pc = "done" =>
        \A k \in DOMAIN prevManifest.data \ DOMAIN manifest :
            /\ k \in DOMAIN manifestFile.data
            /\ manifestFile.data[k] = prevManifest.data[k]

\* C8 (amended): the manifest written at the end of a run holds exactly the
\* entries the run recorded; the manifest that was on disk is not read, and
\* none of its entries whose key the run did not record is kept.
C8_OnlyThisRun ==
    pc = "done" =>
        /\ manifestFile.exists
        /\ DOMAIN manifestFile.data = skipped \cup (synthCalls \ failed)
        /\ \A k \in DOMAIN prevManifest.data \ (skipped \cup synthCalls) :
              k \notin DOMAIN manifestFile.data

\* C8 witness: a run has finished that did not record a key of the manifest
\* it found on disk, and recorded others.
C8_Witness ==
    /\ pc = "done"
    /\ DOMAIN prevManifest.data \ (skipped \cup synthCalls) # {}
    /\ DOMAIN manifestFile.data # {}

\* C9 (as claimed): with a malformed file among the inputs the run still
\* completes, and every well-formed file has been processed.
C9_MalformedFileIsolated ==
    (pc \in {"done", "crashed"} /\ \E f \in DOMAIN files : ~files[f].json) =>
        /\ pc = "done"
        /\ \A g \in DOMAIN files :
              files[g].json =>
                 /\ g \in processed
                 /\ extract_spanish_text_from_json(files[g].data)
                       \subseteq all_spanish_texts

\* C10 (as claimed): a non-empty front (back) text of a flashcard is
\* extracted if and only if its language tag is "es", whatever the
\* heuristic classifier says about the text.
C10_TagEquality ==
    \A f \in processed :
        LET tasks == Get(files[f].data, "tasks", << >>)
        IN  \A i \in 1..Len(tasks) :
              Get(tasks[i], "type", "") = "flashcard" =>
                LET content    == Get(tasks[i], "content", EmptyDict)
                    front      == Get(content, "front", << >>)
                    back       == Get(content, "back", << >>)
                    front_lang == Get(content, "frontLanguage", "")
                    back_lang  == Get(content, "backLanguage", "")
                IN  /\ (front # << >> /\ front_lang = "es")
                          => front \in all_spanish_texts
                    /\ (back # << >> /\ back_lang = "es")
                          => back \in all_spanish_texts
                    /\ \A t \in TaskTexts(tasks[i]) :
                          \/ t = front /\ front_lang = "es"
                          \/ t = back /\ back_lang = "es"

-----------------------------------------------------------------------------
(* Claims about the record field updaters (specification SpecUpd) *)

\* C6: applying an updater to records it has already updated changes
\* nothing: a run of add-audio-to-flashcards.py that directly follows a
\* completed run leaves every file as that run left it, and so does a rerun
\* of the update loop of generate-audio.py.
C6_UpdaterIdempotent ==
    /\ (u_pc = "done" /\ u_settled) => files = u_snapshot
    /\ (v_pc = "done" /\ v_settled) => v_data = v_snapshot

\* C6 witness (flashcards): a second run has finished over a file whose
\* flashcard carried a stale frontAudio, now overwritten.
C6_Witness ==
    /\ u_pc = "done"
    /\ u_settled
    /\ \E f \in DOMAIN files :
          /\ files[f].json
          /\ "tasks" \in DOMAIN files[f].data
          /\ \E i \in 1..Len(files[f].data["tasks"]) :
                LET task == files[f].data["tasks"][i]
                IN  /\ "content" \in DOMAIN task
                    /\ Get(task["content"], "frontAudio", << >>)
                          = SpanishDir \o HolaLc \o Mp3
                    /\ task["content"]["front"] = Hola

\* C9 (as claimed, for add-audio-to-flashcards.py): with a malformed file
\* among the inputs the updater still completes and has rewritten every
\* well-formed file.
C9_UpdaterFileIsolated ==
    (u_pc \in {"done", "crashed"} /\ \E f \in DOMAIN files : ~files[f].json) =>
        /\ u_pc = "done"
        /\ \A g \in DOMAIN files :
              files[g].json =>
                 files[g].data = process_learning_path_file(u_snapshot[g].data).data

-----------------------------------------------------------------------------
(* Claims about when the manifest is written (specification Spec) *)

\* C11: MANIFEST_FILE is written once per run, after the last candidate,
\* from the in-memory dict: from the start of a run until its loop has
\* ended, and after a crash or an interruption between two candidates, the
\* file is what it was when the run started; once the run is done the file
\* holds exactly the in-memory dict.
C11_ManifestWrittenAtEnd ==
    /\ pc \in {"extract", "generate", "crashed", "interrupted", "returned"}
          => manifestFile = prevManifest
    /\ pc = "done" => manifestFile = [exists |-> TRUE, data |-> manifest]

\* C11 witness: a run was interrupted after it had recorded entries that
\* differ from the manifest an earlier run left on disk.
C11_Witness ==
    /\ pc = "interrupted"
    /\ manifestFile.exists
    /\ DOMAIN manifest # {}
    /\ manifest # manifestFile.data
    /\ skipped # {}

-----------------------------------------------------------------------------
(* Claims about the documented examples (specification SpecNorm) *)

\* C12: normalize_filename returns "buenos-dias" for "Buenos días",
\* "como-estas" for "¿Cómo estás?", "hola" for "Hola" and the empty string
\* for "" and for "¿?¡!..."; text_to_audio_filename returns the same three
\* slugs for the three non-empty examples of its docstring.
C12_DocumentedSlugs ==
    /\ n_pc = "out" =>
          /\ n_text = BuenosDias =>
                n_slug = <<"b", "u", "e", "n", "o", "s", "-", "d", "i", "a", "s">>
          /\ n_text = ComoEstas =>
                n_slug = <<"c", "o", "m", "o", "-", "e", "s", "t", "a", "s">>
          /\ n_text = Hola => n_slug = <<"h", "o", "l", "a">>
          /\ n_text = << >> => n_slug = << >>
          /\ n_text = PunctOnly => n_slug = << >>
    /\ n_apc = "out" =>
          /\ n_text = BuenosDias =>
                n_audio = <<"b", "u", "e", "n", "o", "s", "-", "d", "i", "a", "s">>
          /\ n_text = ComoEstas =>
                n_audio = <<"c", "o", "m", "o", "-", "e", "s", "t", "a", "s">>
          /\ n_text = Hola => n_audio = <<"h", "o", "l", "a">>

\* C12 witness: both functions have been applied to "¿Cómo estás?" and
\* both returned "como-estas".
C12_Witness ==
    /\ n_text = ComoEstas
    /\ n_pc = "out"
    /\ n_apc = "out"
    /\ n_slug = <<"c", "o", "m", "o", "-", "e", "s", "t", "a", "s">>
    /\ n_audio = n_slug

-----------------------------------------------------------------------------
(* Claims about the updater and the workflow together *)

\* The flashcard tasks of the well-formed files.
FlashcardTasks ==
    UNION { LET tasks == Get(files[f].data, "tasks", << >>)
            IN  {tasks[i] : i \in {j \in 1..Len(tasks) :
                                     Get(tasks[j], "type", "") = "flashcard"}}
            : f \in {g \in DOMAIN files : files[g].json} }

\* C13 (as claimed, specification Spec): for every flashcard whose front
\* (back) text is non-empty and tagged "es", the path add_audio_to_flashcard
\* writes is "spanish/" + normalize_filename(text) + ".mp3", and once a
\* workflow run over the files is done without synthesis failure the asset
\* of that text exists.
C13_UpdaterAgreesWithWorkflow ==
    \A task \in FlashcardTasks :
        LET content == Get(task, "content", EmptyDict)
            updated == add_audio_to_flashcard(task)["content"]
        IN  /\ (Get(content, "frontLanguage", "") = "es"
                   /\ Get(content, "front", << >>) # << >>) =>
                  /\ updated["frontAudio"]
                        = SpanishDir \o normalize_filename(content["front"]) \o Mp3
                  /\ (pc = "done" /\ failed = {})
                        => asset_filename(content["front"]) \in assets
            /\ (Get(content, "backLanguage", "") = "es"
                   /\ Get(content, "back", << >>) # << >>) =>
                  /\ updated["backAudio"]
                        = SpanishDir \o normalize_filename(content["back"]) \o Mp3
                  /\ (pc = "done" /\ failed = {})
                        => asset_filename(content["back"]) \in assets

\* C13 (as claimed, the paths alone, specification SpecUpd): after a run of
\* add-audio-to-flashcards.py every audio field of a flashcard with a
\* non-empty "es" text is "spanish/" + normalize_filename(text) + ".mp3".
C13_UpdaterPathIsWorkflowPath ==
    u_pc = "done" =>
        \A task \in FlashcardTasks :
            LET content == Get(task, "content", EmptyDict)
            IN  /\ (Get(content, "frontLanguage", "") = "es"
                       /\ Get(content, "front", << >>) # << >>) =>
                      content["frontAudio"]
                        = SpanishDir \o normalize_filename(content["front"]) \o Mp3
                /\ (Get(content, "backLanguage", "") = "es"
                       /\ Get(content, "back", << >>) # << >>) =>
                      content["backAudio"]
                        = SpanishDir \o normalize_filename(content["back"]) \o Mp3

\* C13 (as claimed, the two functions alone, specification SpecNorm): on
\* the same text text_to_audio_filename and normalize_filename return the
\* same slug.
C13_SameSlug ==
    (n_pc = "out" /\ n_apc = "out") => n_audio = n_slug

=============================================================================
